---------------------------- MODULE Spec2Model ----------------------------
(***************************************************************************)
(* TTS-Generator (src/tts.py): the TextToSpeech class.                     *)
(*                                                                         *)
(* Strings are sequences of one-character strings, so that splitting,      *)
(* suffix tests and concatenation are computed and not assumed.            *)
(* The remote synthesis call (gtts) and the audio export (pydub) are       *)
(* outside the repository: an attempt's outcome is a nondeterministic      *)
(* choice among the cases the code distinguishes.                          *)
(***************************************************************************)
EXTENDS Integers, Sequences, FiniteSets, TLC

(***************************************************************************)
(* Bounds of the model                                                     *)
(***************************************************************************)
\* most consecutive failed attempts of one request in RetrySpec
MaxRetries == 4
\* most consecutive failed attempts of one request during a run
MaxRunRetries == 1
\* longest text given to _parse_word_list in ParseSpec
MaxTextLen == 4
\* most worker threads in SplitSpec
MaxSplitThreads == 4
\* the last instant of the clock in TimedSpec, in ticks
MaxTime == 12
\* longest time a request takes in TimedSpec, in ticks
MaxLatency == 1
\* most words a run dispatches in TimedSpec
MaxTimedWords == 4

(***************************************************************************)
(* Program constants                                                       *)
(***************************************************************************)
\* timeout = 5 in _autoretry_request
InitialTimeout == 5
\* _DEFAULT_MAX_PER_SEC = 5.0
DefaultRate == 5
\* the seconds of time.sleep are counted in ticks of half a second
TicksPerSecond == 2
\* _DEFAULT_OUTPUT_DIR = "output/"
DefaultOutputDir == <<"o", "/">>

(***************************************************************************)
(* Strings                                                                 *)
(***************************************************************************)
Range(s) == {s[i] : i \in DOMAIN s}

NL == "\n"
SPACE == " "
DOT == "."

\* the words and file-name pieces of the model
wA == <<"a">>
wB == <<"b">>
wEmpty == <<>>
wBlank == <<SPACE>>
extM == <<"m">>
extW == <<"w">>

\* str.endswith
endswith(s, suffix) ==
    /\ Len(s) >= Len(suffix)
    /\ SubSeq(s, Len(s) - Len(suffix) + 1, Len(s)) = suffix

\* the start positions of the occurrences of sep in s
Occurrences(s, sep) ==
    {i \in 1..(Len(s) - Len(sep) + 1) : SubSeq(s, i, i + Len(sep) - 1) = sep}

Max(S) == CHOOSE x \in S : \A y \in S : y <= x

\* s.rsplit(sep, 1)[0]: what precedes the last occurrence of sep (s itself
\* when sep does not occur)
rsplit_first(s, sep) ==
    IF Occurrences(s, sep) = {} THEN s
    ELSE SubSeq(s, 1, Max(Occurrences(s, sep)) - 1)

\* s.strip() over the whitespace of the model
RECURSIVE lstrip(_)
lstrip(s) ==
    IF s # <<>> /\ Head(s) \in {SPACE, NL} THEN lstrip(Tail(s)) ELSE s

RECURSIVE rstrip(_)
rstrip(s) ==
    IF s # <<>> /\ s[Len(s)] \in {SPACE, NL}
    THEN rstrip(SubSeq(s, 1, Len(s) - 1))
    ELSE s

strip(s) == lstrip(rstrip(s))

(***************************************************************************)
(* _parse_words and _parse_word_list (src/tts.py 290-297)                  *)
(***************************************************************************)
\* str.split(sep) for a one-character sep: the segments between the
\* separators, empty segments included; "" splits to [""]
RECURSIVE split(_, _)
split(s, sep) ==
    IF \A i \in DOMAIN s : s[i] # sep THEN <<s>>
    ELSE LET k == CHOOSE i \in DOMAIN s :
                      /\ s[i] = sep
                      /\ \A j \in 1..(i - 1) : s[j] # sep
         IN <<SubSeq(s, 1, k - 1)>> \o split(SubSeq(s, k + 1, Len(s)), sep)

\* Mutant: the filter drops the lines that are blank after trimming
parse_words_strip(ws) == SelectSeq(ws, LAMBDA w : Len(strip(w)) > 0)

\* [word for word in words if len(word)]
parse_words(ws) == SelectSeq(ws, LAMBDA w : Len(w) > 0)

parse_word_list(t) == parse_words(split(t, NL))

(***************************************************************************)
(* The environment: input files, URLs, the listing of the output directory *)
(***************************************************************************)
NoFile == "NoFile"

\* the local files: their text, or NoFile (open raises FileNotFoundError)
FileNames == {"f1", "f2", "missing"}
FileContent(f) ==
    CASE f = "f1" -> <<"a", NL, NL, "b", NL>>
      [] f = "f2" -> <<SPACE, NL, "b">>
      [] OTHER -> NoFile

\* the URLs: what requests.get does with each
UrlNames == {"u1", "noschema", "u404", "down"}
UrlGet(u) ==
    CASE u = "u1" -> [raised |-> "none", ok |-> TRUE, content |-> <<"b", NL, "a">>]
      [] u = "noschema" -> [raised |-> "MissingSchema", ok |-> FALSE, content |-> <<>>]
      [] u = "u404" -> [raised |-> "none", ok |-> FALSE, content |-> <<"b">>]
      [] OTHER -> [raised |-> "ConnectionError", ok |-> FALSE, content |-> <<>>]

\* sequences over S of length at most n
SeqsUpTo(S, n) == UNION {[1..k -> S] : k \in 0..n}

\* the arguments the calls are given
WordLists == {<<wA>>, <<wB, wA>>, <<wEmpty>>, <<wBlank, wB>>}
FileLists == SeqsUpTo(FileNames, 2)
UrlLists == SeqsUpTo(UrlNames, 2)
\* the arguments they are given in Spec, where runs follow
RunWordLists == {<<wA>>, <<wB, wA>>, <<wBlank>>}
RunFileLists == {<<"missing", "f1">>}
RunUrlLists == {<<"u404", "u1">>, <<"down">>}

\* the worker counts a configuration asks for (config.n_threads)
ThreadCounts == {1, 2}

\* word + "." + filetype
FileName(stem, ext) == stem \o <<DOT>> \o ext

\* os.path.join(a, b)
join(a, b) ==
    IF b # <<>> /\ Head(b) = "/" THEN b
    ELSE IF a = <<>> \/ a[Len(a)] = "/" THEN a \o b
    ELSE a \o <<"/">> \o b

\* what os.listdir(output_dir) can return when the instance is constructed
InitialDirs == SUBSET {FileName(wA, extM), FileName(wB, extW)}

VARIABLES
    config,            \* self._config: [n_threads, progress_bar, filetype]
    overwrite,         \* the constructor's overwrite argument
    listed_files,      \* os.listdir(output_dir) at construction
    existing_files,    \* self._existing_files
    words,             \* self._words
    progress_tracker,  \* self._progress_tracker
    dir,               \* the files in the output directory
    main_pc,           \* where the caller is: "idle", or inside run()
    run_result,        \* the exception the caller's last call let out
    run_words,         \* run(): words (the list)
    split_word_list,   \* run(): split_word_list
    threads,           \* run(): threads
    pc,                \* each worker thread's position
    pos,               \* _process_words: index of the word in hand (1-based)
    timeout,           \* _autoretry_request: timeout
    delays,            \* _autoretry_request: the time.sleep calls so far
    attempts,          \* _autoretry_request: the attempts that failed so far
    exc,               \* the exception a worker thread died of
    exported,          \* the words each worker has exported in this run
    mp3_fp,            \* _autoretry_request: what mp3_fp holds
    pbar_pc,           \* the reporter thread's position
    pbar_value,        \* pbar.value
    pbar_max,          \* pbar.max_value
    pbar_index,        \* the reporter's sum: the counter it reads next
    pbar_acc,          \* the reporter's sum: the counters read, added up
    call,              \* the last add_*/reset call: [op, srcs, before]
    text,              \* ParseSpec: the argument of _parse_word_list
    parsed,            \* ParseSpec: its result
    passed_config,     \* the fields of the object given to the constructor
    got_config,        \* the fields of the object the config property gave
    now,               \* TimedSpec: the clock, in ticks
    timed_pc,          \* TimedSpec: where the caller is: "idle" or "run"
    started,           \* TimedSpec: the worker threads started
    wake_main,         \* TimedSpec: when the caller's sleep in run() ends
    wake,              \* TimedSpec: when each worker makes its next request
    todo,              \* TimedSpec: the words each worker has left
    backoff,           \* TimedSpec: timeout of _autoretry_request, ticks
    sent               \* TimedSpec: the instants of the last requests

vars == <<config, overwrite, listed_files, existing_files, words,
          progress_tracker, dir, main_pc, run_result, run_words,
          split_word_list, threads, pc, pos, timeout, delays, attempts, exc,
          exported, mp3_fp, pbar_pc, pbar_value, pbar_max, pbar_index, pbar_acc,
          call, text, parsed,
          passed_config, got_config, now, timed_pc, started, wake_main,
          wake, todo, backoff, sent>>

instance_vars == <<config, overwrite, listed_files, existing_files>>
run_vars == <<main_pc, run_words, split_word_list, threads>>
worker_vars == <<pc, pos, timeout, delays, attempts, exc, exported, mp3_fp>>
pbar_vars == <<pbar_pc, pbar_value, pbar_max, pbar_index, pbar_acc>>
parse_vars == <<text, parsed>>
caller_vars == <<passed_config, got_config>>
clock_vars == <<now, timed_pc, started, wake_main, wake, todo, backoff, sent>>

Workers == 0..(config.n_threads - 1)
NoCall == [op |-> "none", srcs |-> <<>>, before |-> {}]

(***************************************************************************)
(* __init__ (src/tts.py 74-97)                                             *)
(***************************************************************************)
\* one pass of the loop over listed_files: the stem appended, if any
stem_of(filename, filename_end) ==
    IF endswith(filename, filename_end)
    THEN {rsplit_first(filename, filename_end)}
    ELSE {}

\* Mutant: the counters start at one
reset_progress_tracker_ones(n) == [i \in 0..(n - 1) |-> 1]

\* Mutant: the snapshot is taken whatever overwrite says
existing_files_always(ow, filetype, listed) ==
    UNION {stem_of(f, <<DOT>> \o filetype) : f \in listed}

\* self._existing_files after __init__
init_existing_files(ow, filetype, listed) ==
    IF ~ow
    THEN UNION {stem_of(f, <<DOT>> \o filetype) : f \in listed}
    ELSE {}

\* [[0] for _ in range(n_threads)]
reset_progress_tracker(n) == [i \in 0..(n - 1) |-> 0]

(***************************************************************************)
(* The configuration objects (src/tts.py 86, 200-203).  An object has an   *)
(* identity; a name of the program refers to one object, and a write to a  *)
(* field through one name is seen through every name of the same object.   *)
(***************************************************************************)
\* got_config before the config property was read; afterwards it is
\* <<c>> for the fields c of the object returned last
NoConfig == <<>>

\* what the caller can set the fields to
FieldValues ==
    [n_threads |-> ThreadCounts, progress_bar |-> BOOLEAN,
     filetype |-> {extM, extW}]

\* Mutant: no copy is made, the same object is handed on
same_object(obj, fresh) == obj

\* copy.copy(obj): a new object, its fields equal to those of obj
copy_copy(obj, fresh) == fresh

\* the object self._config refers to: copy.copy(config) in __init__
SelfConfigObject == copy_copy("passed", "self")

\* the object the config property returns: copy.copy(self._config)
GotConfigObject == copy_copy(SelfConfigObject, "got")

\* the object a name of the caller refers to
ObjectOf(name) == IF name = "passed" THEN "passed" ELSE GotConfigObject

\* the caller reads the config property
GetConfig ==
    /\ got_config' = <<config>>
    /\ UNCHANGED <<instance_vars, words, progress_tracker, dir, run_result,
                   run_vars, worker_vars, pbar_vars, call, parse_vars,
                   passed_config, clock_vars>>

\* the caller sets a field of the object it passed, or of the one it got
SetAttr(name, field, v) ==
    /\ name = "got" => got_config # NoConfig
    /\ passed_config' = IF ObjectOf(name) = "passed"
                        THEN [passed_config EXCEPT ![field] = v]
                        ELSE passed_config
    /\ config' = IF ObjectOf(name) = SelfConfigObject
                 THEN [config EXCEPT ![field] = v]
                 ELSE config
    /\ got_config' = IF got_config # NoConfig /\ ObjectOf(name) = GotConfigObject
                     THEN <<[got_config[1] EXCEPT ![field] = v]>>
                     ELSE got_config
    /\ UNCHANGED <<overwrite, listed_files, existing_files, words,
                   progress_tracker, dir, run_result, run_vars, worker_vars,
                   pbar_vars, call, parse_vars, clock_vars>>

(***************************************************************************)
(* The word set (src/tts.py 140-198)                                       *)
(***************************************************************************)
\* self._words.update(words)
add_words(w, ws) == w \cup Range(ws)

\* Mutant: FileNotFoundError is not caught
add_words_from_file_uncaught(w, filename) ==
    IF FileContent(filename) = NoFile
    THEN [words |-> w, raised |-> "FileNotFoundError"]
    ELSE [words |-> add_words(w, parse_word_list(FileContent(filename))),
          raised |-> "none"]

\* the word set after add_words_from_file, and the exception it lets out
add_words_from_file(w, filename) ==
    IF FileContent(filename) = NoFile
    THEN [words |-> w, raised |-> "none"]
    ELSE [words |-> add_words(w, parse_word_list(FileContent(filename))),
          raised |-> "none"]

\* for filename in filenames: self.add_words_from_file(filename)
RECURSIVE add_words_from_files(_, _)
add_words_from_files(w, filenames) ==
    IF filenames = <<>> THEN [words |-> w, raised |-> "none"]
    ELSE LET r == add_words_from_file(w, Head(filenames))
         IN IF r.raised # "none" THEN r
            ELSE add_words_from_files(r.words, Tail(filenames))

\* the word set after add_words_from_url, and the exception it lets out
add_words_from_url(w, url) ==
    LET response == UrlGet(url)
    IN CASE response.raised = "MissingSchema" -> [words |-> w, raised |-> "none"]
         [] response.raised \notin {"none", "MissingSchema"} ->
                [words |-> w, raised |-> response.raised]
         [] ~response.ok -> [words |-> w, raised |-> "none"]
         [] OTHER ->
                [words |-> add_words(w, parse_word_list(response.content)),
                 raised |-> "none"]

\* for url in urls: self.add_words_from_url(url)
RECURSIVE add_words_from_urls(_, _)
add_words_from_urls(w, urls) ==
    IF urls = <<>> THEN [words |-> w, raised |-> "none"]
    ELSE LET r == add_words_from_url(w, Head(urls))
         IN IF r.raised # "none" THEN r
            ELSE add_words_from_urls(r.words, Tail(urls))

\* the calls are made by the caller's thread, between runs
AddWords(ws) ==
    /\ main_pc = "idle"
    /\ words' = add_words(words, ws)
    /\ call' = [op |-> "add_words", srcs |-> ws, before |-> words]
    /\ run_result' = "none"
    /\ UNCHANGED <<instance_vars, progress_tracker, dir, run_vars,
                   worker_vars, pbar_vars, parse_vars, caller_vars, clock_vars>>

AddWordsFromFiles(filenames) ==
    /\ main_pc = "idle"
    /\ LET r == add_words_from_files(words, filenames)
       IN /\ words' = r.words
          /\ run_result' = r.raised
    /\ call' = [op |-> "add_words_from_files", srcs |-> filenames,
                before |-> words]
    /\ UNCHANGED <<instance_vars, progress_tracker, dir, run_vars,
                   worker_vars, pbar_vars, parse_vars, caller_vars, clock_vars>>

AddWordsFromUrls(urls) ==
    /\ main_pc = "idle"
    /\ LET r == add_words_from_urls(words, urls)
       IN /\ words' = r.words
          /\ run_result' = r.raised
    /\ call' = [op |-> "add_words_from_urls", srcs |-> urls, before |-> words]
    /\ UNCHANGED <<instance_vars, progress_tracker, dir, run_vars,
                   worker_vars, pbar_vars, parse_vars, caller_vars, clock_vars>>

\* self._words = set()
ResetWords ==
    /\ main_pc = "idle"
    /\ words' = {}
    /\ call' = [op |-> "reset_words", srcs |-> <<>>, before |-> words]
    /\ run_result' = "none"
    /\ UNCHANGED <<instance_vars, progress_tracker, dir, run_vars,
                   worker_vars, pbar_vars, parse_vars, caller_vars, clock_vars>>

(***************************************************************************)
(* run (src/tts.py 99-138)                                                 *)
(***************************************************************************)
\* the orders list(words) can give a set
ListsOf(S) ==
    {l \in [1..Cardinality(S) -> S] : \A i, j \in DOMAIN l : l[i] = l[j] => i = j}

\* Mutant: the slice starts one place late
slice_from_next(l, i, n) ==
    [k \in 1..(IF i + 1 >= Len(l) THEN 0 ELSE (Len(l) - i - 1 + n - 1) \div n)
        |-> l[i + 1 + (k - 1) * n + 1]]

\* l[i::n]: the elements at the 0-based places i, i + n, i + 2n, ...
slice(l, i, n) ==
    [k \in 1..(IF i >= Len(l) THEN 0 ELSE (Len(l) - i + n - 1) \div n)
        |-> l[i + (k - 1) * n + 1]]

\* Mutant: every worker is given the whole list
split_words_whole(l, n) == [i \in 0..(n - 1) |-> l]

\* [words[i :: n_threads] for i in range(n_threads)]
split_words(l, n) == [i \in 0..(n - 1) |-> slice(l, i, n)]

\* self._words.difference(self._existing_files)
filter_words(w, existing) == w \ existing

WorkerThread(i) == <<"worker", i>>
PbarThread == <<"pbar", 0>>

\* if not self._words: raise ValueError("No words to process")
RunNoWords ==
    /\ main_pc = "idle"
    /\ words = {}
    /\ run_result' = "ValueError"
    /\ call' = NoCall
    /\ UNCHANGED <<instance_vars, words, progress_tracker, dir, run_vars,
                   worker_vars, pbar_vars, parse_vars, caller_vars, clock_vars>>

\* run() down to _create_progress_bar_thread
RunStart ==
    /\ main_pc = "idle"
    /\ words # {}
    /\ \E l \in ListsOf(filter_words(words, existing_files)) :
          /\ run_words' = l
          /\ split_word_list' = split_words(l, config.n_threads)
          /\ pbar_max' = IF config.progress_bar THEN Len(l) ELSE 0
    /\ progress_tracker' = reset_progress_tracker(config.n_threads)
    /\ threads' = IF config.progress_bar THEN <<PbarThread>> ELSE <<>>
    /\ pbar_pc' = IF config.progress_bar THEN "loop" ELSE "none"
    /\ pbar_value' = 0
    /\ pbar_index' = 0
    /\ pbar_acc' = 0
    /\ pc' = [i \in Workers |-> "unstarted"]
    /\ pos' = [i \in Workers |-> 0]
    /\ timeout' = [i \in Workers |-> 0]
    /\ delays' = [i \in Workers |-> <<>>]
    /\ attempts' = [i \in Workers |-> 0]
    /\ exc' = [i \in Workers |-> "none"]
    /\ exported' = [i \in Workers |-> <<>>]
    /\ mp3_fp' = [i \in Workers |-> <<>>]
    /\ main_pc' = "create"
    /\ run_result' = "none"
    /\ call' = NoCall
    /\ UNCHANGED <<instance_vars, words, dir, parse_vars, caller_vars,
                   clock_vars>>

\* the worker threads created so far
NCreated == Cardinality({k \in DOMAIN threads : threads[k][1] = "worker"})

\* one pass of the loop over split_word_list: the thread is started and
\* appended, then the caller sleeps 1 / max_per_second
CreateProcessWordThread ==
    /\ main_pc = "create"
    /\ NCreated < config.n_threads
    /\ pc' = [pc EXCEPT ![NCreated] = "start"]
    /\ threads' = Append(threads, WorkerThread(NCreated))
    /\ main_pc' = IF NCreated + 1 = config.n_threads THEN "join" ELSE "create"
    /\ UNCHANGED <<instance_vars, words, progress_tracker, dir, run_result,
                   run_words, split_word_list, pos, timeout, delays,
                   attempts, exc, exported, mp3_fp, pbar_vars, call,
                   parse_vars, caller_vars, clock_vars>>

\* is_alive() is false
Finished(t) ==
    IF t[1] = "pbar" THEN pbar_pc = "done" ELSE pc[t[2]] \in {"done", "dead"}

\* for thread in threads: thread.join() has come to its end
joined(ts) == \A k \in DOMAIN ts : Finished(ts[k])

\* run() returns: an exception that ended a worker thread stayed in that
\* thread, and the locals of run() and of the threads are gone
RunReturn ==
    /\ main_pc = "join"
    /\ joined(threads)
    /\ main_pc' = "idle"
    /\ run_result' = "none"
    /\ run_words' = <<>>
    /\ split_word_list' = <<>>
    /\ threads' = <<>>
    /\ pc' = [i \in Workers |-> "unstarted"]
    /\ exc' = [i \in Workers |-> "none"]
    /\ exported' = [i \in Workers |-> <<>>]
    /\ pbar_pc' = "none"
    /\ pbar_value' = 0
    /\ pbar_max' = 0
    /\ UNCHANGED <<mp3_fp, pbar_index, pbar_acc>>
    /\ UNCHANGED <<instance_vars, words, progress_tracker, dir, pos, timeout,
                   delays, attempts, call, parse_vars, caller_vars, clock_vars>>

(***************************************************************************)
(* _autoretry_request (src/tts.py 241-266)                                 *)
(***************************************************************************)
\* what a gTTSError can look like to the handler: its response (absent, OK
\* or not OK), whether the traceback holds "https://", and the error's own
\* ok attribute (absent, true or false)
Failures ==
    {[rsp |-> "none", marker |-> FALSE, err_ok |-> "absent"],
     [rsp |-> "ok", marker |-> FALSE, err_ok |-> "absent"],
     [rsp |-> "notok", marker |-> TRUE, err_ok |-> "absent"],
     [rsp |-> "notok", marker |-> FALSE, err_ok |-> "absent"],
     [rsp |-> "notok", marker |-> FALSE, err_ok |-> "false"],
     [rsp |-> "notok", marker |-> FALSE, err_ok |-> "true"]}

\* what the except block does with a failure: the exception it raises,
\* or "none" and the line it prints before the sleep
handle(f) ==
    CASE f.rsp = "none" -> [raises |-> "AttributeError", prints |-> "none"]
      [] f.rsp = "ok" -> [raises |-> "none", prints |-> "error"]
      [] f.rsp = "notok" /\ f.marker ->
             [raises |-> "none", prints |-> "reauthenticate"]
      [] f.rsp = "notok" /\ ~f.marker /\ f.err_ok = "absent" ->
             [raises |-> "AttributeError", prints |-> "none"]
      [] f.rsp = "notok" /\ ~f.marker /\ f.err_ok = "false" ->
             [raises |-> "RuntimeError", prints |-> "none"]
      [] OTHER -> [raises |-> "none", prints |-> "reauthenticate_nowhere"]

\* round(x, 2) of an int x is x
round2(x) == x

\* Mutant: the next delay is capped at 20 seconds
next_timeout_capped(t) == IF round2(t * 2) > 20 THEN 20 ELSE round2(t * 2)

\* timeout = round(timeout * 2, 2)
next_timeout(t) == round2(t * 2)

\* what request.write_to_fp writes when it succeeds: gTTS sends the text in
\* parts and writes the audio of each part as it arrives
AudioParts == <<"part1", "part2">>

\* what an attempt that fails has written before it fails: the audio of
\* the parts that arrived before the one that failed
PartialWrites == {SubSeq(AudioParts, 1, k) : k \in 0..(Len(AudioParts) - 1)}

\* the static method is called on its own: mp3_fp = io.BytesIO(), timeout = 5
AutoretryRequest(i) ==
    /\ main_pc = "idle"
    /\ pc[i] = "unstarted"
    /\ pc' = [pc EXCEPT ![i] = "request"]
    /\ timeout' = [timeout EXCEPT ![i] = InitialTimeout]
    /\ mp3_fp' = [mp3_fp EXCEPT ![i] = <<>>]
    /\ UNCHANGED <<instance_vars, words, progress_tracker, dir, run_result,
                   run_vars, pos, delays, attempts, exc, exported, pbar_vars,
                   call, parse_vars, caller_vars, clock_vars>>

\* request.write_to_fp(mp3_fp) succeeds: return mp3_fp
AttemptOk(i) ==
    /\ pc[i] = "request"
    /\ pc' = [pc EXCEPT ![i] = "export"]
    /\ timeout' = [timeout EXCEPT ![i] = 0]
    /\ delays' = [delays EXCEPT ![i] = <<>>]
    /\ attempts' = [attempts EXCEPT ![i] = 0]
    /\ mp3_fp' = [mp3_fp EXCEPT ![i] = @ \o AudioParts]
    /\ UNCHANGED <<instance_vars, words, progress_tracker, dir, run_result,
                   run_vars, pos, exc, exported, pbar_vars, call, parse_vars,
                   caller_vars, clock_vars>>

\* it raises gTTSError, after writing what had arrived, and the handler
\* sleeps: one more pass of the loop, with the same mp3_fp
AttemptRetry(i, f, most) ==
    /\ pc[i] = "request"
    /\ Len(delays[i]) < most
    /\ handle(f).raises = "none"
    /\ \E written \in PartialWrites :
          mp3_fp' = [mp3_fp EXCEPT ![i] = @ \o written]
    /\ attempts' = [attempts EXCEPT ![i] = @ + 1]
    /\ delays' = [delays EXCEPT ![i] = Append(@, timeout[i])]
    /\ timeout' = [timeout EXCEPT ![i] = next_timeout(@)]
    /\ UNCHANGED <<instance_vars, words, progress_tracker, dir, run_result,
                   run_vars, pc, pos, exc, exported, pbar_vars, call,
                   parse_vars, caller_vars, clock_vars>>

\* it raises gTTSError and the handler raises: the thread ends
AttemptRaise(i, f) ==
    /\ pc[i] = "request"
    /\ handle(f).raises # "none"
    /\ pc' = [pc EXCEPT ![i] = "dead"]
    /\ exc' = [exc EXCEPT ![i] = handle(f).raises]
    /\ pos' = [pos EXCEPT ![i] = 0]
    /\ timeout' = [timeout EXCEPT ![i] = 0]
    /\ delays' = [delays EXCEPT ![i] = <<>>]
    /\ attempts' = [attempts EXCEPT ![i] = 0]
    /\ mp3_fp' = [mp3_fp EXCEPT ![i] = <<>>]
    /\ UNCHANGED <<instance_vars, words, progress_tracker, dir, run_result,
                   run_vars, exported, pbar_vars, call, parse_vars,
                   caller_vars, clock_vars>>

(***************************************************************************)
(* _process_words (src/tts.py 268-283)                                     *)
(***************************************************************************)
\* the word a worker has in hand
Word(i) == split_word_list[i][pos[i]]

\* the thread begins: the first word's request is made, or there is none
WorkerStart(i) ==
    /\ pc[i] = "start"
    /\ IF split_word_list[i] = <<>>
       THEN /\ pc' = [pc EXCEPT ![i] = "done"]
            /\ UNCHANGED <<pos, timeout>>
       ELSE /\ pc' = [pc EXCEPT ![i] = "request"]
            /\ pos' = [pos EXCEPT ![i] = 1]
            /\ timeout' = [timeout EXCEPT ![i] = InitialTimeout]
    /\ UNCHANGED <<instance_vars, words, progress_tracker, dir, run_result,
                   run_vars, delays, attempts, exc, exported, mp3_fp,
                   pbar_vars, call, parse_vars, caller_vars, clock_vars>>

\* os.path.join(self._config.output_dir, f"{word}.{filetype}")
output_file(word) == join(config.output_dir, FileName(word, config.filetype))

\* mp3_fp is read from its start to its end by AudioSegment.from_mp3, and
\* the audio is written: audio.export(output_file, ...)
Export(i) ==
    /\ pc[i] = "export"
    /\ mp3_fp' = [mp3_fp EXCEPT ![i] = <<>>]
    /\ dir' = dir \cup {FileName(Word(i), config.filetype)}
    /\ exported' = [exported EXCEPT ![i] = Append(@, Word(i))]
    /\ pc' = [pc EXCEPT ![i] = "progress"]
    /\ UNCHANGED <<instance_vars, words, progress_tracker, run_result,
                   run_vars, pos, timeout, delays, attempts, exc, pbar_vars,
                   call, parse_vars, caller_vars, clock_vars>>

\* the counter is incremented, the thread sleeps, and the loop goes on to
\* the next word's request or ends
Progress(i) ==
    /\ pc[i] = "progress"
    /\ progress_tracker' = [progress_tracker EXCEPT ![i] = @ + 1]
    /\ IF pos[i] < Len(split_word_list[i])
       THEN /\ pc' = [pc EXCEPT ![i] = "request"]
            /\ pos' = [pos EXCEPT ![i] = @ + 1]
            /\ timeout' = [timeout EXCEPT ![i] = InitialTimeout]
       ELSE /\ pc' = [pc EXCEPT ![i] = "done"]
            /\ pos' = [pos EXCEPT ![i] = 0]
            /\ UNCHANGED timeout
    /\ UNCHANGED <<instance_vars, words, dir, run_result, run_vars, delays,
                   attempts, exc, exported, mp3_fp, pbar_vars, call,
                   parse_vars, caller_vars, clock_vars>>

(***************************************************************************)
(* _update_progressbar (src/tts.py 285-288)                                *)
(***************************************************************************)
RECURSIVE SumTo(_, _)
SumTo(f, n) == IF n = 0 THEN 0 ELSE f[n - 1] + SumTo(f, n - 1)

\* the sum of the counters at one instant
Sum(f) == SumTo(f, Cardinality(DOMAIN f))

\* Mutant: the loop goes on while the value has not passed the maximum
pbar_unfinished_or_equal(value, max_value) == value <= max_value

\* while pbar.value < pbar.max_value
pbar_unfinished(value, max_value) == value < max_value

\* the reporter is inside a pass of its loop: the test held, or the sum
\* is under way
PbarInPass ==
    /\ pbar_pc = "loop"
    /\ pbar_index > 0 \/ pbar_unfinished(pbar_value, pbar_max)

\* sum(...) reads one counter that is not the last: the counters are read
\* one at a time, and the workers can count between two reads
PbarRead ==
    /\ PbarInPass
    /\ pbar_index < config.n_threads - 1
    /\ pbar_acc' = pbar_acc + progress_tracker[pbar_index]
    /\ pbar_index' = pbar_index + 1
    /\ UNCHANGED <<instance_vars, words, progress_tracker, dir, run_result,
                   run_vars, worker_vars, pbar_pc, pbar_value, pbar_max,
                   call, parse_vars, caller_vars, clock_vars>>

\* sum(...) reads the last counter, and the pass ends: pbar.update(sum),
\* then the sleep
PbarUpdate ==
    /\ PbarInPass
    /\ pbar_index = config.n_threads - 1
    /\ pbar_value' = pbar_acc + progress_tracker[pbar_index]
    /\ pbar_index' = 0
    /\ pbar_acc' = 0
    /\ UNCHANGED <<instance_vars, words, progress_tracker, dir, run_result,
                   run_vars, worker_vars, pbar_pc, pbar_max, call, parse_vars,
                   caller_vars, clock_vars>>

\* the loop's test fails: the thread ends
PbarExit ==
    /\ pbar_pc = "loop"
    /\ pbar_index = 0
    /\ ~pbar_unfinished(pbar_value, pbar_max)
    /\ pbar_pc' = "done"
    /\ UNCHANGED <<instance_vars, words, progress_tracker, dir, run_result,
                   run_vars, worker_vars, pbar_value, pbar_max, pbar_index,
                   pbar_acc, call, parse_vars, caller_vars, clock_vars>>

(***************************************************************************)
(* The program                                                             *)
(***************************************************************************)
\* the state after construction, for the rates a configuration can ask for
InitWith(rates) ==
    /\ passed_config \in [n_threads : ThreadCounts, progress_bar : BOOLEAN,
                          filetype : {extM}, max_per_second : rates,
                          output_dir : {DefaultOutputDir}]
    /\ config = passed_config
    /\ got_config = NoConfig
    /\ overwrite \in BOOLEAN
    /\ listed_files \in InitialDirs
    /\ dir = listed_files
    /\ existing_files = init_existing_files(overwrite, config.filetype, listed_files)
    /\ words = {}
    /\ progress_tracker = reset_progress_tracker(config.n_threads)
    /\ main_pc = "idle"
    /\ run_result = "none"
    /\ run_words = <<>>
    /\ split_word_list = <<>>
    /\ threads = <<>>
    /\ pc = [i \in Workers |-> "unstarted"]
    /\ pos = [i \in Workers |-> 0]
    /\ timeout = [i \in Workers |-> 0]
    /\ delays = [i \in Workers |-> <<>>]
    /\ attempts = [i \in Workers |-> 0]
    /\ exc = [i \in Workers |-> "none"]
    /\ exported = [i \in Workers |-> <<>>]
    /\ mp3_fp = [i \in Workers |-> <<>>]
    /\ pbar_pc = "none"
    /\ pbar_value = 0
    /\ pbar_max = 0
    /\ pbar_index = 0
    /\ pbar_acc = 0
    /\ call = NoCall
    /\ text = <<>>
    /\ parsed = <<>>
    /\ now = 0
    /\ timed_pc = "idle"
    /\ started = 0
    /\ wake_main = 0
    /\ wake = [i \in Workers |-> 0]
    /\ todo = [i \in Workers |-> 0]
    /\ backoff = [i \in Workers |-> 0]
    /\ sent = <<>>

Init == InitWith({DefaultRate})

Next ==
    \/ \E ws \in RunWordLists : AddWords(ws)
    \/ \E fl \in RunFileLists : AddWordsFromFiles(fl)
    \/ \E ul \in RunUrlLists : AddWordsFromUrls(ul)
    \/ ResetWords
    \/ RunNoWords
    \/ RunStart
    \/ CreateProcessWordThread
    \/ RunReturn
    \/ \E i \in Workers : WorkerStart(i)
    \/ \E i \in Workers : AttemptOk(i)
    \/ \E i \in Workers, f \in Failures : AttemptRetry(i, f, MaxRunRetries)
    \/ \E i \in Workers, f \in Failures : AttemptRaise(i, f)
    \/ \E i \in Workers : Export(i)
    \/ \E i \in Workers : Progress(i)
    \/ PbarRead
    \/ PbarUpdate
    \/ PbarExit

Spec == Init /\ [][Next]_vars

(***************************************************************************)
(* The functions on their own                                              *)
(***************************************************************************)
\* the texts of ParseSpec
Texts == SeqsUpTo({"a", "b", SPACE, NL}, MaxTextLen)

\* _parse_word_list(text), called once
ParseWordList(t) ==
    /\ main_pc = "idle"
    /\ text = <<>> /\ parsed = <<>>
    /\ text' = t
    /\ parsed' = parse_word_list(t)
    /\ UNCHANGED <<instance_vars, words, progress_tracker, dir, run_result,
                   run_vars, worker_vars, pbar_vars, call, caller_vars,
                   clock_vars>>

ParseNext == \E t \in Texts : ParseWordList(t)

ParseSpec == Init /\ [][ParseNext]_vars

\* the lists of SplitSpec: distinct words, in every order
SplitUniverse == {wA, wB, wBlank, <<"a", "b">>}
SplitLists == UNION {ListsOf(S) : S \in SUBSET SplitUniverse}

\* the split of run(), made once for a list and a worker count
SplitWordList(l, n) ==
    /\ main_pc = "idle"
    /\ run_words = <<>> /\ split_word_list = <<>>
    /\ run_words' = l
    /\ split_word_list' = split_words(l, n)
    /\ UNCHANGED <<instance_vars, words, progress_tracker, dir, run_result,
                   main_pc, threads, worker_vars, pbar_vars, call,
                   parse_vars, caller_vars, clock_vars>>

SplitNext == \E l \in SplitLists, n \in 1..MaxSplitThreads : SplitWordList(l, n)

SplitSpec == Init /\ [][SplitNext]_vars

RetryNext ==
    \/ AutoretryRequest(0)
    \/ AttemptOk(0)
    \/ \E f \in Failures : AttemptRetry(0, f, MaxRetries)
    \/ \E f \in Failures : AttemptRaise(0, f)

RetrySpec == Init /\ [][RetryNext]_vars

BuildNext ==
    \/ \E ws \in WordLists : AddWords(ws)
    \/ \E fl \in FileLists : AddWordsFromFiles(fl)
    \/ \E ul \in UrlLists : AddWordsFromUrls(ul)
    \/ ResetWords

BuildSpec == Init /\ [][BuildNext]_vars

\* the caller changes configuration objects before and during runs
ConfigNext ==
    \/ AddWords(<<wB, wA>>)
    \/ RunStart
    \/ CreateProcessWordThread
    \/ RunReturn
    \/ \E i \in Workers : WorkerStart(i)
    \/ \E i \in Workers : AttemptOk(i)
    \/ \E i \in Workers : Export(i)
    \/ \E i \in Workers : Progress(i)
    \/ PbarRead
    \/ PbarUpdate
    \/ PbarExit
    \/ GetConfig
    \/ \E name \in {"passed", "got"}, field \in DOMAIN FieldValues :
          \E v \in FieldValues[field] : SetAttr(name, field, v)

ConfigSpec == Init /\ [][ConfigNext]_vars

(***************************************************************************)
(* The timing of a run (src/tts.py 120-135, 241-283): every sleep lasts    *)
(* exactly as long as asked, a request is sent the instant its thread      *)
(* reaches it, and it is answered 0..MaxLatency ticks later.               *)
(***************************************************************************)
\* the rates (requests per second) of TimedSpec
Rates == {1, 2}

\* thread_timeout = n_threads / max_per_second, in ticks
thread_timeout == (config.n_threads * TicksPerSecond) \div config.max_per_second

\* 1 / max_per_second, in ticks
stagger == TicksPerSecond \div config.max_per_second

\* run() down to the loop over split_word_list, for c dispatched words
TimedRunStart(c) ==
    /\ main_pc = "idle"
    /\ timed_pc = "idle"
    /\ timed_pc' = "run"
    /\ todo' = [i \in Workers |->
                  Len(split_words([k \in 1..c |-> k], config.n_threads)[i])]
    /\ wake_main' = now
    /\ UNCHANGED <<instance_vars, words, progress_tracker, dir, run_result,
                   run_vars, worker_vars, pbar_vars, call, parse_vars,
                   caller_vars, now, started, wake, backoff, sent>>

\* one pass of the loop over split_word_list: the thread starts now, and
\* the caller sleeps 1 / max_per_second
TimedCreateThread ==
    /\ timed_pc = "run"
    /\ started < config.n_threads
    /\ wake_main <= now
    /\ wake' = [wake EXCEPT ![started] = now]
    /\ backoff' = [backoff EXCEPT ![started] = InitialTimeout * TicksPerSecond]
    /\ started' = started + 1
    /\ wake_main' = now + stagger
    /\ UNCHANGED <<instance_vars, words, progress_tracker, dir, run_result,
                   run_vars, worker_vars, pbar_vars, call, parse_vars,
                   caller_vars, now, timed_pc, todo, sent>>

\* a worker has a request to make now
Due(i) == timed_pc = "run" /\ i < started /\ todo[i] > 0 /\ wake[i] <= now

\* request.write_to_fp is called: the request is sent now and answered
\* after latency ticks.  If it succeeds the word is exported and counted,
\* and the worker sleeps thread_timeout before the next word's request; if
\* it fails the handler sleeps timeout and doubles it before the retry.
TimedRequest(i, latency, ok) ==
    /\ Due(i)
    /\ sent' = Append(sent, now)
    /\ IF ok
       THEN /\ todo' = [todo EXCEPT ![i] = @ - 1]
            /\ wake' = [wake EXCEPT ![i] = now + latency + thread_timeout]
            /\ backoff' = [backoff EXCEPT ![i] = InitialTimeout * TicksPerSecond]
       ELSE /\ todo' = todo
            /\ wake' = [wake EXCEPT ![i] = now + latency + backoff[i]]
            /\ backoff' = [backoff EXCEPT ![i] = next_timeout(@)]
    /\ UNCHANGED <<instance_vars, words, progress_tracker, dir, run_result,
                   run_vars, worker_vars, pbar_vars, call, parse_vars,
                   caller_vars, now, timed_pc, started, wake_main>>

\* nothing is due: time passes, and the requests older than a second are
\* forgotten
Tick ==
    /\ timed_pc = "run"
    /\ now < MaxTime
    /\ ~(started < config.n_threads /\ wake_main <= now)
    /\ \A i \in Workers : ~Due(i)
    /\ now' = now + 1
    /\ sent' = SelectSeq(sent, LAMBDA t : t > now' - TicksPerSecond)
    /\ UNCHANGED <<instance_vars, words, progress_tracker, dir, run_result,
                   run_vars, worker_vars, pbar_vars, call, parse_vars,
                   caller_vars, timed_pc, started, wake_main, wake, todo,
                   backoff>>

TimedNext ==
    \/ \E c \in 1..MaxTimedWords : TimedRunStart(c)
    \/ TimedCreateThread
    \/ \E i \in Workers, latency \in 0..MaxLatency, ok \in BOOLEAN :
          TimedRequest(i, latency, ok)
    \/ Tick

TimedSpec == InitWith(Rates) /\ [][TimedNext]_vars

(***************************************************************************)
(* The threads' scheduling: every thread that can take a step does so in   *)
(* the end; the caller's calls between runs are under no such obligation.  *)
(***************************************************************************)
AllWorkers == 0..(Max(ThreadCounts) - 1)

WorkerStep(i) ==
    /\ i \in Workers
    /\ \/ WorkerStart(i)
       \/ AttemptOk(i)
       \/ \E f \in Failures : AttemptRetry(i, f, MaxRunRetries)
       \/ \E f \in Failures : AttemptRaise(i, f)
       \/ Export(i)
       \/ Progress(i)

LiveSpec ==
    /\ Init /\ [][Next]_vars
    /\ WF_vars(CreateProcessWordThread)
    /\ WF_vars(RunReturn)
    /\ \A i \in AllWorkers : WF_vars(WorkerStep(i))
    /\ WF_vars(PbarRead)
    /\ WF_vars(PbarUpdate)
    /\ WF_vars(PbarExit)

\* runs of one or two words, with the reporter, under the same scheduling
ReporterNext ==
    \/ \E ws \in {<<wA>>, <<wB, wA>>} : AddWords(ws)
    \/ RunStart
    \/ CreateProcessWordThread
    \/ RunReturn
    \/ \E i \in Workers : WorkerStart(i)
    \/ \E i \in Workers : AttemptOk(i)
    \/ \E i \in Workers, f \in Failures : AttemptRetry(i, f, MaxRunRetries)
    \/ \E i \in Workers, f \in Failures : AttemptRaise(i, f)
    \/ \E i \in Workers : Export(i)
    \/ \E i \in Workers : Progress(i)
    \/ PbarRead
    \/ PbarUpdate
    \/ PbarExit

ReporterSpec ==
    /\ Init /\ [][ReporterNext]_vars
    /\ WF_vars(CreateProcessWordThread)
    /\ WF_vars(RunReturn)
    /\ \A i \in AllWorkers : WF_vars(WorkerStep(i))
    /\ WF_vars(PbarRead)
    /\ WF_vars(PbarUpdate)
    /\ WF_vars(PbarExit)

(***************************************************************************)
(* Properties                                                              *)
(***************************************************************************)
InRun == main_pc # "idle"
RunReturns == main_pc = "join" /\ main_pc' = "idle"
NoDead == \A i \in Workers : pc[i] # "dead"

\* how often a worker's exports hold a word
Count(l, w) == Cardinality({k \in DOMAIN l : l[k] = w})
RECURSIVE TimesExportedTo(_, _)
TimesExportedTo(w, n) ==
    IF n = 0 THEN 0 ELSE Count(exported[n - 1], w) + TimesExportedTo(w, n - 1)
TimesExported(w) == TimesExportedTo(w, config.n_threads)

\* C1: once _autoretry_request has raised the fatal RuntimeError in one
\* worker, run() ends with a fatal error, and no sibling worker goes on to
\* request or export a word.
C1_FatalErrorAbortsRun ==
    [][(\E i \in Workers : pc[i] = "dead" /\ exc[i] = "RuntimeError") =>
          /\ RunReturns => run_result' \in {"RuntimeError", "AttributeError"}
          /\ \A j \in Workers :
                /\ ~(pc[j] \in {"start", "progress"} /\ pc'[j] = "request")
                /\ ~(pc[j] = "request" /\ pc'[j] = "export")
                /\ ~(pc[j] = "export" /\ pc'[j] = "progress")]_vars

\* C2: when no word is left after the filter, run() has raised the "no
\* words" condition: it is not inside a run and no thread was started.
C2_EmptyAfterFilterExits ==
    filter_words(words, existing_files) = {} =>
        main_pc = "idle" /\ threads = <<>>

\* C3: the partitions cover the list exactly: the word at index k (from 0)
\* is in partition k mod N at place k div N, every word is in exactly one
\* partition, and two partitions differ in size by at most 1.
C3_PartitionsCoverExactly ==
    LET n == Cardinality(DOMAIN split_word_list)
        places(w) == {<<i, j>> \in (0..(n - 1)) \X (1..Len(run_words)) :
                         j <= Len(split_word_list[i])
                         /\ split_word_list[i][j] = w}
    IN n >= 1 =>
        /\ DOMAIN split_word_list = 0..(n - 1)
        /\ \A k \in 1..Len(run_words) :
              places(run_words[k]) = {<<(k - 1) % n, ((k - 1) \div n) + 1>>}
        /\ \A i \in 0..(n - 1) :
              /\ Len(split_word_list[i]) <= Len(run_words)
              /\ Range(split_word_list[i]) \subseteq Range(run_words)
        /\ \A i1, i2 \in 0..(n - 1) :
              Len(split_word_list[i1]) - Len(split_word_list[i2]) <= 1

C3_Witness ==
    /\ Len(run_words) = 4
    /\ Cardinality(DOMAIN split_word_list) = 3
    /\ Len(split_word_list[0]) = 2
    /\ Len(split_word_list[2]) = 1

\* the stems of the files of L that carry the extension ext
StemsOf(L, ext) ==
    {s \in UNION {{SubSeq(f, 1, k) : k \in 0..Len(f)} : f \in L} :
        FileName(s, ext) \in L}

\* C4: the words a run dispatches are the word set minus the stems of the
\* files with the configured extension listed at construction if overwrite
\* is false, and the whole word set if it is true; the snapshot stays what
\* it was at construction.
C4_DispatchIsWordsMinusSnapshot ==
    LET snapshot == IF overwrite THEN {}
                    ELSE StemsOf(listed_files, config.filetype)
    IN /\ existing_files = snapshot
       /\ InRun =>
             /\ Range(run_words) = words \ snapshot
             /\ Len(run_words) = Cardinality(words \ snapshot)

C4_Witness ==
    /\ InRun
    /\ ~overwrite
    /\ FileName(wA, extM) \in listed_files
    /\ FileName(wB, extW) \in listed_files
    /\ words = {wA, wB}
    /\ run_words = <<wB>>

\* C5: with overwrite false, no worker requests or exports a word whose
\* output file is already in the output directory.
C5_NoExistingFileRegenerated ==
    ~overwrite =>
        \A i \in Workers :
            (InRun /\ pc[i] \in {"request", "export"}) =>
                FileName(Word(i), config.filetype) \notin dir

\* C6: after k failed attempts that were retried, the delays slept are
\* 5, 10, 20, ...: the j-th is 5 * 2^(j-1), and the next one is 5 * 2^k.
C6_BackoffDoubles ==
    \A i \in Workers :
        pc[i] = "request" =>
            /\ Len(delays[i]) = attempts[i]
            /\ \A j \in 1..Len(delays[i]) :
                  delays[i][j] = InitialTimeout * 2^(j - 1)
            /\ timeout[i] = InitialTimeout * 2^Len(delays[i])

C6_Witness ==
    /\ pc[0] = "request"
    /\ Len(delays[0]) >= 4
    /\ SubSeq(delays[0], 1, 4) = <<5, 10, 20, 40>>

\* the words of a run are all written, each once, and all counted
AllWrittenOnce ==
    /\ \A w \in Range(run_words) :
          /\ TimesExported(w) = 1
          /\ FileName(w, config.filetype) \in dir
    /\ Sum(progress_tracker) = Len(run_words)

\* C7: run() returns only after every worker thread has finished its
\* partition; when no attempt fails for good run() does return, and every
\* dispatched word has then been written exactly once and the counters sum
\* to the number of dispatched words.
C7_RunReturnsAfterAllPartitions ==
    /\ [][RunReturns =>
            \A i \in Workers :
                pc[i] = "done" /\ exported[i] = split_word_list[i]]_vars
    /\ [][(RunReturns /\ NoDead) => AllWrittenOnce]_vars
    /\ ([]NoDead) => (InRun ~> ~InRun)

\* What holds of C7: run() returns only after every worker thread has
\* ended, by finishing its partition or by an exception; the rest is as
\* claimed.
RunJoinsAllAndReturns ==
    /\ [][RunReturns =>
            /\ \A i \in Workers : pc[i] \in {"done", "dead"}
            /\ NoDead => AllWrittenOnce]_vars
    /\ ([]NoDead) => (InRun ~> ~InRun)

RunJoinsAllAndReturns_Witness ==
    /\ main_pc = "join"
    /\ joined(threads)
    /\ NoDead
    /\ config.n_threads = 2
    /\ config.progress_bar
    /\ Len(run_words) = 3
    /\ AllWrittenOnce

\* the text's lines that are not empty: where they start, and where the
\* line that starts at i ends
LineStarts(t) == {i \in 1..Len(t) : t[i] # NL /\ (i = 1 \/ t[i - 1] = NL)}
LineEnd(t, i) ==
    CHOOSE j \in i..Len(t) :
        /\ \A k \in i..j : t[k] # NL
        /\ j = Len(t) \/ t[j + 1] = NL
NthStart(t, n) ==
    CHOOSE i \in LineStarts(t) :
        Cardinality({j \in LineStarts(t) : j < i}) = n - 1

\* C8: _parse_word_list returns the lines of the text that are not empty,
\* in their order and unchanged; only the empty lines are dropped.
C8_ParseKeepsNonEmptyLines ==
    /\ Len(parsed) = Cardinality(LineStarts(text))
    /\ \A n \in 1..Len(parsed) :
          parsed[n] = SubSeq(text, NthStart(text, n),
                             LineEnd(text, NthStart(text, n)))

C8_Witness ==
    /\ text = <<"a", NL, NL, "b">>
    /\ parsed = <<wA, wB>>

\* C9: every word of the word set is non-empty, and still non-empty after
\* trimming whitespace.
C9_WordsNonBlank ==
    \A w \in words : Len(w) > 0 /\ Len(strip(w)) > 0

\* the words a text gives: its non-empty lines
LineWords(t) == {SubSeq(t, i, LineEnd(t, i)) : i \in LineStarts(t)}

\* the sources of the model that fail in a way the handlers report
FileFails(f) == FileContent(f) = NoFile
UrlFails(u) == UrlGet(u).raised = "MissingSchema" \/ (UrlGet(u).raised = "none" /\ ~UrlGet(u).ok)
UrlGood(u) == UrlGet(u).raised = "none" /\ UrlGet(u).ok

\* C10: a source that fails (a missing file, a URL without a schema, a
\* response that is not OK) is skipped: the call returns normally and the
\* word set is what it was plus the words of the sources that did not fail.
C10_FailedSourcesSkipped ==
    /\ call.op = "add_words_from_files" =>
          /\ run_result = "none"
          /\ words = call.before \cup
                UNION {LineWords(FileContent(call.srcs[k])) :
                         k \in {j \in DOMAIN call.srcs : ~FileFails(call.srcs[j])}}
    /\ (call.op = "add_words_from_urls"
          /\ \A k \in DOMAIN call.srcs :
                UrlFails(call.srcs[k]) \/ UrlGood(call.srcs[k])) =>
          /\ run_result = "none"
          /\ words = call.before \cup
                UNION {LineWords(UrlGet(call.srcs[k]).content) :
                         k \in {j \in DOMAIN call.srcs : UrlGood(call.srcs[j])}}

C10_Witness ==
    /\ call.op = "add_words_from_files"
    /\ call.srcs = <<"missing", "f1">>
    /\ call.before = {wEmpty}
    /\ words = {wEmpty, wA, wB}
    /\ run_result = "none"

\* C11: the configuration the instance uses is the snapshot taken at
\* construction: no step changes a field of it, whatever the caller sets in
\* the object it passed to the constructor or in an object the config
\* property returned, before or during a run.
C11_ConfigIsSnapshot ==
    [][config' = config]_vars

C11_Witness ==
    /\ InRun
    /\ \E i \in Workers : pc[i] = "export"
    /\ passed_config.n_threads # config.n_threads
    /\ passed_config.filetype # config.filetype
    /\ got_config # NoConfig
    /\ got_config[1].progress_bar # config.progress_bar

\* the requests sent in the second that begins at instant t
SentInWindow(t) ==
    Cardinality({k \in DOMAIN sent : t <= sent[k] /\ sent[k] < t + TicksPerSecond})

\* C12: in no one-second window of a run are more than max_per_second
\* requests sent (first attempts and retries, over all the workers),
\* whatever the requests' latencies.
C12_RateNeverExceeded ==
    \A t \in 0..now : SentInWindow(t) <= config.max_per_second

\* the failure the claim calls fatal: the response is not OK and the
\* traceback holds no "https://"
FatalShape(f) == f.rsp = "notok" /\ ~f.marker

\* C13: _autoretry_request never surfaces a transient failure and never
\* gives up: a failure that is not of the fatal shape is retried whatever
\* the number of failures before it, and a success returns the audio with
\* no exception.  It raises only RuntimeError, only for a failure of the
\* fatal shape, and then at once: no sleep, no further attempt.
C13_OnlyFatalShapeRaises ==
    /\ [](\A i \in Workers, f \in Failures :
            pc[i] = "request" =>
                IF FatalShape(f)
                THEN /\ ENABLED AttemptRaise(i, f)
                     /\ ~ENABLED AttemptRetry(i, f, MaxRetries)
                ELSE /\ ~ENABLED AttemptRaise(i, f)
                     /\ Len(delays[i]) < MaxRetries =>
                           ENABLED AttemptRetry(i, f, MaxRetries))
    /\ [][\A i \in Workers :
            /\ (\E f \in Failures : AttemptRaise(i, f)) =>
                  exc'[i] = "RuntimeError"
            /\ AttemptOk(i) => pc'[i] = "export" /\ exc'[i] = "none"]_vars

\* the words a worker has synthesized or written in this run, or has in hand
Touched(i) ==
    Range(exported[i]) \cup
        (IF pc[i] \in {"request", "export"} THEN {Word(i)} ELSE {})

\* the paths a worker has written in this run
Written(i) == {output_file(w) : w \in Range(exported[i])}

SameRun == main_pc # "idle" /\ main_pc' # "idle"

\* C15: within a run counter i is written only by worker i, by one, after
\* the worker exported a word's file; so counter i is at most the number of
\* files worker i has written and at most the size of partition i, and the
\* sum of the counters, and the sum the reporter reads, never decrease and
\* never exceed the number of dispatched words.
C15_CountersFollowExports ==
    /\ [](InRun =>
            /\ \A i \in Workers :
                  /\ progress_tracker[i] <= Len(exported[i])
                  /\ progress_tracker[i] <= Len(split_word_list[i])
            /\ Sum(progress_tracker) <= Len(run_words)
            /\ pbar_acc <= Len(run_words)
            /\ pbar_value <= Len(run_words))
    /\ [][SameRun =>
            /\ \A i \in Workers :
                  progress_tracker'[i] # progress_tracker[i] =>
                      /\ Progress(i)
                      /\ progress_tracker'[i] = progress_tracker[i] + 1
                      /\ Len(exported[i]) = progress_tracker'[i]
            /\ Sum(progress_tracker') >= Sum(progress_tracker)
            /\ pbar_value' >= pbar_value]_vars

C15_Witness ==
    /\ InRun
    /\ config.n_threads = 2
    /\ progress_tracker[0] = 2
    /\ progress_tracker[1] = 0
    /\ Len(exported[1]) = 1
    /\ pbar_index = 1
    /\ pbar_acc = 1
    /\ pbar_value = 0

\* a step of the reporter thread
PbarStep == PbarRead \/ PbarUpdate \/ PbarExit

\* what the caller, the dispatch and the workers hold
work_vars == <<instance_vars, words, progress_tracker, dir, run_result,
               main_pc, run_words, split_word_list, worker_vars>>

\* the reporter is at the test of its loop
PbarAtTest == pbar_pc = "loop" /\ pbar_index = 0

\* C16: the reporter only observes: its steps change nothing the caller,
\* the dispatch or the workers hold, no worker ever waits for it, and the
\* words dispatched and the partitions are what they are without it.  It
\* ends after the first poll whose sum equals the number of dispatched
\* words, at once when that number is 0, and not before.
C16_ReporterObservesAndEnds ==
    /\ [][PbarStep => UNCHANGED work_vars]_vars
    /\ [](InRun =>
            /\ Range(run_words) = filter_words(words, existing_files)
            /\ split_word_list = split_words(run_words, config.n_threads)
            /\ \A i \in Workers :
                  pc[i] \in {"start", "request", "export", "progress"} =>
                      ENABLED WorkerStep(i))
    /\ [](pbar_pc # "none" <=> (config.progress_bar /\ InRun))
    /\ [](pbar_pc \in {"loop", "done"} => pbar_max = Len(run_words))
    /\ [](pbar_pc = "done" => pbar_value = pbar_max)
    /\ [](PbarAtTest =>
            IF pbar_value = pbar_max
            THEN ENABLED PbarExit /\ ~ENABLED PbarRead /\ ~ENABLED PbarUpdate
            ELSE ~ENABLED PbarExit)
    /\ (PbarAtTest /\ pbar_value = pbar_max) ~> (pbar_pc = "done")

C16_Witness ==
    /\ pbar_pc = "done"
    /\ config.n_threads = 2
    /\ pbar_max = 2
    /\ pbar_value = 2
    /\ main_pc = "join"

\* every worker thread of the run was started and has ended, by coming to
\* the end of its partition or by an exception
AllWorkersEnded ==
    /\ main_pc = "join"
    /\ \A i \in Workers : pc[i] \in {"done", "dead"}

\* C17: once every worker thread has ended, by finishing its partition or
\* by dying, run() returns in the end, with the progress bar on or off.
C17_RunReturnsOnceWorkersEnded ==
    AllWorkersEnded ~> ~InRun

\* C18: the buffer _autoretry_request returns holds the audio the one
\* successful attempt wrote and nothing else, whatever number of attempts
\* failed before it.
C18_BufferHoldsOneAttempt ==
    \A i \in Workers : pc[i] = "export" => mp3_fp[i] = AudioParts

=============================================================================
